---- MODULE Spec2Model ----
(***************************************************************************)
(* ScopedStack<K, V> of src/src/lib.rs: a chain of scopes, each a node     *)
(* holding a HashMap `values` and an optional boxed `child`.  A node is    *)
(* the record [values |-> m, child |-> c] where m is a function from the   *)
(* keys it binds to their values and c is <<>> (None) or <<n>> (Some(n)).  *)
(* An Option<V> is <<>> (None) or <<v>> (Some(v)).                         *)
(***************************************************************************)
EXTENDS Integers, Sequences, FiniteSets

\* Bounds of the exploration.
MaxDepth == 3
NumKeys == 2
NumVals == 2

KEYS == 1..NumKeys
VALS == 1..NumVals

VARIABLES stack, prev, last, scenario, balance, block

vars == <<stack, prev, last, scenario, balance, block>>

----------------------------------------------------------------------------
\* HashMap<K, V>

\* HashMap::new()
EmptyMap == [x \in {} |-> 0]

\* HashMap::contains_key
contains_key(m, k) == k \in DOMAIN m

\* HashMap::get
map_get(m, k) == IF k \in DOMAIN m THEN <<m[k]>> ELSE <<>>

\* HashMap::insert (the old value, if any, is replaced)
map_insert(m, k, v) == [x \in (DOMAIN m) \cup {k} |-> IF x = k THEN v ELSE m[x]]

\* HashMap::remove: the map without k, and the value k had
map_remove(m, k) ==
  [map |-> [x \in (DOMAIN m) \ {k} |-> m[x]], ret |-> map_get(m, k)]

----------------------------------------------------------------------------
\* impl ScopedStack

\* ScopedStack::new
new == [values |-> EmptyMap, child |-> <<>>]

\* a push_scope that replaces the receiver's child instead of descending
push_scope_replace(self) == [self EXCEPT !.child = <<new>>]

\* a push_scope whose new scope starts as a copy of its parent's bindings
RECURSIVE push_scope_copy(_)
push_scope_copy(self) ==
  IF self.child # <<>>
    THEN [self EXCEPT !.child = <<push_scope_copy(self.child[1])>>]
    ELSE [self EXCEPT !.child = <<[values |-> self.values, child |-> <<>>]>>]

RECURSIVE push_scope(_)
push_scope(self) ==
  IF self.child # <<>>
    THEN [self EXCEPT !.child = <<push_scope(self.child[1])>>]
    ELSE [self EXCEPT !.child = <<new>>]

\* a pop_scope that drops the receiver's whole child chain
pop_scope_root(self) == [self EXCEPT !.child = <<>>]

\* a pop_scope that clears the last remaining scope instead of leaving it
RECURSIVE pop_scope_reset(_)
pop_scope_reset(self) ==
  IF self.child # <<>>
    THEN IF self.child[1].child # <<>>
           THEN [self EXCEPT !.child = <<pop_scope_reset(self.child[1])>>]
           ELSE [self EXCEPT !.child = <<>>]
    ELSE new

RECURSIVE pop_scope(_)
pop_scope(self) ==
  IF self.child # <<>>
    THEN IF self.child[1].child # <<>>
           THEN [self EXCEPT !.child = <<pop_scope(self.child[1])>>]
           ELSE [self EXCEPT !.child = <<>>]
    ELSE [self EXCEPT !.child = <<>>]

\* an insert that writes into the receiver without descending
insert_root(self, key, value) ==
  [self EXCEPT !.values = map_insert(self.values, key, value)]

\* an insert that also writes into every scope it descends through
RECURSIVE insert_all(_, _, _)
insert_all(self, key, value) ==
  IF self.child # <<>>
    THEN [values |-> map_insert(self.values, key, value),
          child |-> <<insert_all(self.child[1], key, value)>>]
    ELSE [self EXCEPT !.values = map_insert(self.values, key, value)]

RECURSIVE insert(_, _, _)
insert(self, key, value) ==
  IF self.child # <<>>
    THEN [self EXCEPT !.child = <<insert(self.child[1], key, value)>>]
    ELSE [self EXCEPT !.values = map_insert(self.values, key, value)]

\* a has that answers for the receiver's own map without descending
has_root(self, key) == contains_key(self.values, key)

RECURSIVE has(_, _)
has(self, key) ==
  IF self.child # <<>>
    THEN has(self.child[1], key)
    ELSE contains_key(self.values, key)

\* an insert_existing that always descends to the tail
RECURSIVE insert_existing_tail(_, _, _)
insert_existing_tail(self, key, value) ==
  IF self.child # <<>>
    THEN [self EXCEPT !.child =
            <<insert_existing_tail(self.child[1], key, value)>>]
    ELSE [self EXCEPT !.values = map_insert(self.values, key, value)]

\* an insert_existing that tests the child's own map instead of child.has
RECURSIVE insert_existing_childmap(_, _, _)
insert_existing_childmap(self, key, value) ==
  IF self.child # <<>>
    THEN IF contains_key(self.child[1].values, key)
           THEN [self EXCEPT !.child =
                   <<insert_existing_childmap(self.child[1], key, value)>>]
           ELSE [self EXCEPT !.values = map_insert(self.values, key, value)]
    ELSE [self EXCEPT !.values = map_insert(self.values, key, value)]

RECURSIVE insert_existing(_, _, _)
insert_existing(self, key, value) ==
  IF self.child # <<>>
    THEN IF has(self.child[1], key)
           THEN [self EXCEPT !.child =
                   <<insert_existing(self.child[1], key, value)>>]
           ELSE [self EXCEPT !.values = map_insert(self.values, key, value)]
    ELSE [self EXCEPT !.values = map_insert(self.values, key, value)]

\* the loop of get: `value` is the best binding so far, `child` the next node
RECURSIVE get_loop(_, _, _)
get_loop(value, child, key) ==
  IF child # <<>>
    THEN get_loop(IF map_get(child[1].values, key) # <<>>
                    THEN map_get(child[1].values, key)
                    ELSE value,
                  child[1].child, key)
    ELSE value

\* a get that keeps the first binding found instead of the last
RECURSIVE get_first(_, _)
get_first(self, key) ==
  IF map_get(self.values, key) # <<>> \/ self.child = <<>>
    THEN map_get(self.values, key)
    ELSE get_first(self.child[1], key)

get(self, key) == get_loop(map_get(self.values, key), self.child, key)

\* a remove that falls through to the enclosing scope when the tail misses
RECURSIVE remove_fallthrough(_, _)
remove_fallthrough(self, key) ==
  IF self.child # <<>>
    THEN LET r == remove_fallthrough(self.child[1], key) IN
         IF r.ret # <<>>
           THEN [self |-> [self EXCEPT !.child = <<r.self>>], ret |-> r.ret]
           ELSE [self |-> [self EXCEPT !.values = map_remove(self.values, key).map],
                 ret |-> map_remove(self.values, key).ret]
    ELSE [self |-> [self EXCEPT !.values = map_remove(self.values, key).map],
          ret |-> map_remove(self.values, key).ret]

\* a remove that returns the tail's value and leaves the binding in place
RECURSIVE remove_peek(_, _)
remove_peek(self, key) ==
  IF self.child # <<>>
    THEN LET r == remove_peek(self.child[1], key) IN
         [self |-> [self EXCEPT !.child = <<r.self>>], ret |-> r.ret]
    ELSE [self |-> self, ret |-> map_get(self.values, key)]

\* remove: the structure afterwards (self) and the returned Option<V> (ret)
RECURSIVE remove(_, _)
remove(self, key) ==
  IF self.child # <<>>
    THEN LET r == remove(self.child[1], key) IN
         [self |-> [self EXCEPT !.child = <<r.self>>], ret |-> r.ret]
    ELSE [self |-> [self EXCEPT !.values = map_remove(self.values, key).map],
          ret |-> map_remove(self.values, key).ret]

----------------------------------------------------------------------------
\* The chain of a stack, root first and tail last: the maps met by following
\* the child links.
RECURSIVE Scopes(_)
Scopes(self) ==
  <<self.values>> \o (IF self.child # <<>> THEN Scopes(self.child[1]) ELSE <<>>)

Depth(self) == Len(Scopes(self))

TailScope(self) == Scopes(self)[Depth(self)]

\* the positions of the chain whose map binds key
Defining(self, key) == {i \in 1..Depth(self) : key \in DOMAIN Scopes(self)[i]}

Max(S) == CHOOSE i \in S : \A j \in S : j <= i

----------------------------------------------------------------------------
\* The caller.  `last` records the call just made and what it returned,
\* `prev` the structure before it.  `scenario` is the caller's position in
\* the sequence insert(K,V1); push_scope(); insert(K,V2); pop_scope().
\* `balance` counts the push_scope calls made minus the pop_scope calls made
\* while the chain was longer than one.  `block` follows a lexical block the
\* caller brackets with push_scope()/pop_scope(): the structure when the
\* block was opened (base), the push_scope calls inside it not yet matched
\* (level), and whether the block held any call (calls), an insert (wrote),
\* a matched inner push_scope/pop_scope pair (nested) or an insert_existing
\* call (ie).

NoCall == [op |-> "new", key |-> 0, value |-> 0, ret |-> <<>>, flag |-> FALSE]

Call(op, key, value, ret, flag) ==
  [op |-> op, key |-> key, value |-> value, ret |-> ret, flag |-> flag]

NoScenario == [phase |-> 0, key |-> 0, v1 |-> 0, v2 |-> 0]

ScenarioNext(s, op, key, value) ==
  IF s.phase = 1 /\ op = "push_scope" THEN [s EXCEPT !.phase = 2]
  ELSE IF s.phase = 2 /\ op = "insert" /\ key = s.key
    THEN [s EXCEPT !.phase = 3, !.v2 = value]
  ELSE IF s.phase = 3 /\ op = "pop_scope" THEN [s EXCEPT !.phase = 4]
  ELSE IF op = "insert" THEN [phase |-> 1, key |-> key, v1 |-> value, v2 |-> 0]
  ELSE NoScenario

NoBlock ==
  [phase |-> "none", base |-> new, level |-> 0,
   calls |-> FALSE, wrote |-> FALSE, nested |-> FALSE, ie |-> FALSE]

BlockNext(b, op) ==
  IF b.phase # "open" THEN NoBlock
  ELSE IF op = "push_scope"
    THEN [b EXCEPT !.level = @ + 1, !.calls = TRUE]
  ELSE IF op = "pop_scope"
    THEN IF b.level > 0
           THEN [b EXCEPT !.level = @ - 1, !.calls = TRUE, !.nested = TRUE]
           ELSE [b EXCEPT !.phase = "closed"]
  ELSE IF op = "insert_existing"
    THEN [b EXCEPT !.calls = TRUE, !.ie = TRUE]
  ELSE IF op = "insert"
    THEN [b EXCEPT !.calls = TRUE, !.wrote = TRUE]
  ELSE [b EXCEPT !.calls = TRUE]

Init ==
  /\ stack = new
  /\ prev = new
  /\ last = NoCall
  /\ scenario = NoScenario
  /\ balance = 0
  /\ block = NoBlock

PushScope ==
  /\ Depth(stack) < MaxDepth
  /\ stack' = push_scope(stack)
  /\ prev' = stack
  /\ last' = Call("push_scope", 0, 0, <<>>, FALSE)
  /\ scenario' = ScenarioNext(scenario, "push_scope", 0, 0)
  /\ balance' = balance + 1
  /\ block' = block

PopScope ==
  /\ stack' = pop_scope(stack)
  /\ prev' = stack
  /\ last' = Call("pop_scope", 0, 0, <<>>, FALSE)
  /\ scenario' = ScenarioNext(scenario, "pop_scope", 0, 0)
  /\ balance' = IF Depth(stack) > 1 THEN balance - 1 ELSE balance
  /\ block' = block

Insert ==
  \E k \in KEYS, v \in VALS :
    /\ stack' = insert(stack, k, v)
    /\ prev' = stack
    /\ last' = Call("insert", k, v, <<>>, FALSE)
    /\ scenario' = ScenarioNext(scenario, "insert", k, v)
    /\ balance' = balance
    /\ block' = block

InsertExisting ==
  \E k \in KEYS, v \in VALS :
    /\ stack' = insert_existing(stack, k, v)
    /\ prev' = stack
    /\ last' = Call("insert_existing", k, v, <<>>, FALSE)
    /\ scenario' = ScenarioNext(scenario, "insert_existing", k, v)
    /\ balance' = balance
    /\ block' = block

Get ==
  \E k \in KEYS :
    /\ stack' = stack
    /\ prev' = stack
    /\ last' = Call("get", k, 0, get(stack, k), FALSE)
    /\ scenario' = ScenarioNext(scenario, "get", k, 0)
    /\ balance' = balance
    /\ block' = block

Has ==
  \E k \in KEYS :
    /\ stack' = stack
    /\ prev' = stack
    /\ last' = Call("has", k, 0, <<>>, has(stack, k))
    /\ scenario' = ScenarioNext(scenario, "has", k, 0)
    /\ balance' = balance
    /\ block' = block

Remove ==
  \E k \in KEYS :
    /\ stack' = remove(stack, k).self
    /\ prev' = stack
    /\ last' = Call("remove", k, 0, remove(stack, k).ret, FALSE)
    /\ scenario' = ScenarioNext(scenario, "remove", k, 0)
    /\ balance' = balance
    /\ block' = block

Next ==
  \/ PushScope
  \/ PopScope
  \/ Insert
  \/ InsertExisting
  \/ Get
  \/ Has
  \/ Remove

Spec == Init /\ [][Next]_vars

\* The caller of lexical blocks.  OpenBlock is the push_scope() that opens a
\* block; the other calls are the ones of Next, made inside or outside a
\* block, with the block followed instead of the call record.
OpenBlock ==
  /\ Depth(stack) < MaxDepth
  /\ block.phase # "open"
  /\ stack' = push_scope(stack)
  /\ block' = [NoBlock EXCEPT !.phase = "open", !.base = stack]
  /\ UNCHANGED <<prev, last, scenario, balance>>

BlockPushScope ==
  /\ Depth(stack) < MaxDepth
  /\ stack' = push_scope(stack)
  /\ block' = BlockNext(block, "push_scope")
  /\ UNCHANGED <<prev, last, scenario, balance>>

BlockPopScope ==
  /\ stack' = pop_scope(stack)
  /\ block' = BlockNext(block, "pop_scope")
  /\ UNCHANGED <<prev, last, scenario, balance>>

BlockInsert ==
  \E k \in KEYS, v \in VALS :
    /\ stack' = insert(stack, k, v)
    /\ block' = BlockNext(block, "insert")
    /\ UNCHANGED <<prev, last, scenario, balance>>

BlockInsertExisting ==
  \E k \in KEYS, v \in VALS :
    /\ stack' = insert_existing(stack, k, v)
    /\ block' = BlockNext(block, "insert_existing")
    /\ UNCHANGED <<prev, last, scenario, balance>>

BlockGet ==
  \E k \in KEYS :
    /\ get(stack, k) \in {<<>>} \cup {<<v>> : v \in VALS}
    /\ stack' = stack
    /\ block' = BlockNext(block, "get")
    /\ UNCHANGED <<prev, last, scenario, balance>>

BlockHas ==
  \E k \in KEYS :
    /\ has(stack, k) \in BOOLEAN
    /\ stack' = stack
    /\ block' = BlockNext(block, "has")
    /\ UNCHANGED <<prev, last, scenario, balance>>

BlockRemove ==
  \E k \in KEYS :
    /\ stack' = remove(stack, k).self
    /\ block' = BlockNext(block, "remove")
    /\ UNCHANGED <<prev, last, scenario, balance>>

BlockNextStep ==
  \/ OpenBlock
  \/ BlockPushScope
  \/ BlockPopScope
  \/ BlockInsert
  \/ BlockInsertExisting
  \/ BlockGet
  \/ BlockHas
  \/ BlockRemove

BlockSpec == Init /\ [][BlockNextStep]_vars

----------------------------------------------------------------------------
\* The innermost binding of key in the chain, computed from the flattened
\* chain: the value at the greatest defining position, None when there is none.
Innermost(self, key) ==
  IF Defining(self, key) = {}
    THEN <<>>
    ELSE <<Scopes(self)[Max(Defining(self, key))][key]>>

----------------------------------------------------------------------------
\* C1: in every reachable state and for every key, get returns the value of
\* the innermost scope that defines the key (whatever non-defining scopes lie
\* above it) and None exactly when no scope defines it; a get call returns
\* that value for the structure it was called on.
C1_GetInnermost ==
  /\ \A k \in KEYS :
       /\ get(stack, k) = Innermost(stack, k)
       /\ (get(stack, k) = <<>>) <=> (Defining(stack, k) = {})
  /\ last.op = "get" => last.ret = Innermost(prev, last.key)

\* a get on a chain of three scopes whose root and middle scope bind the key
\* to different values and whose tail does not bind it
C1_Witness ==
  /\ last.op = "get"
  /\ Depth(stack) = 3
  /\ Defining(stack, last.key) = {1, 2}
  /\ Scopes(stack)[1][last.key] # Scopes(stack)[2][last.key]
  /\ last.ret = <<Scopes(stack)[2][last.key]>>

\* C2: insert(K,V) writes K->V into the tail scope, replacing what the tail
\* held for K; right afterwards get(K) = Some(V) and has(K), whatever the
\* outer scopes bind K to.
C2_InsertTail ==
  last.op = "insert" =>
    /\ Depth(stack) = Depth(prev)
    /\ last.key \in DOMAIN TailScope(stack)
    /\ TailScope(stack)[last.key] = last.value
    /\ get(stack, last.key) = <<last.value>>
    /\ has(stack, last.key)

\* an insert on a chain of two or more scopes whose tail held another value
\* for the key and whose root binds the key to another value too
C2_Witness ==
  /\ last.op = "insert"
  /\ Depth(prev) >= 2
  /\ last.key \in DOMAIN TailScope(prev)
  /\ TailScope(prev)[last.key] # last.value
  /\ last.key \in DOMAIN Scopes(prev)[1]
  /\ Scopes(stack)[1][last.key] # last.value

\* C3: after insert(K,V1); push_scope(); insert(K,V2) get(K) is Some(V2),
\* and after the pop_scope() that follows get(K) is Some(V1) again.
C3_Shadowing ==
  /\ scenario.phase = 3 => get(stack, scenario.key) = <<scenario.v2>>
  /\ scenario.phase = 4 => get(stack, scenario.key) = <<scenario.v1>>

\* the whole sequence was run with V1 # V2, starting below the root
C3_Witness ==
  /\ scenario.phase = 4
  /\ scenario.v1 # scenario.v2
  /\ Depth(stack) >= 2
  /\ last.op = "pop_scope"

\* the scope insert_existing is documented to write: the most deeply nested
\* scope that defines the key, the root when none does
DeepestDefining(self, key) ==
  IF Defining(self, key) = {} THEN 1 ELSE Max(Defining(self, key))

\* C4: insert_existing(K,V) places the binding in the most deeply nested
\* scope that defines K, or in the root if no scope defines K, for every
\* chain length.
C4_InsertExistingDeepest ==
  last.op = "insert_existing" =>
    Scopes(stack) =
      [Scopes(prev) EXCEPT ![DeepestDefining(prev, last.key)] =
         [x \in (DOMAIN @) \cup {last.key} |->
            IF x = last.key THEN last.value ELSE @[x]]]

C6_RemoveFallsThrough ==
  last.op = "remove" =>
    /\ last.ret = Innermost(prev, last.key)
    /\ Defining(prev, last.key) # {} =>
         last.key \notin DOMAIN Scopes(stack)[Max(Defining(prev, last.key))]

C8_HasIffGet ==
  \A k \in KEYS : has(stack, k) <=> (get(stack, k) # <<>>)

\* C9: pop_scope() on a chain of one scope changes nothing: the root's
\* bindings and its absent child are the same before and after.
C9_PopSingleNoop ==
  (last.op = "pop_scope" /\ Depth(prev) = 1) =>
    /\ stack = prev
    /\ stack.values = prev.values
    /\ stack.child = <<>>

\* a pop_scope on a single scope that binds every key
C9_Witness ==
  /\ last.op = "pop_scope"
  /\ Depth(prev) = 1
  /\ DOMAIN prev.values = KEYS
  /\ DOMAIN stack.values = KEYS

\* C10: pop_scope() on a chain of n > 1 scopes removes exactly the tail: the
\* length becomes n-1 and the remaining scopes keep their bindings in order.
C10_PopRemovesTail ==
  (last.op = "pop_scope" /\ Depth(prev) > 1) =>
    /\ Depth(stack) = Depth(prev) - 1
    /\ \A i \in 1..Depth(stack) : Scopes(stack)[i] = Scopes(prev)[i]
    /\ Scopes(stack) = SubSeq(Scopes(prev), 1, Depth(prev) - 1)

\* a pop_scope on a chain of three scopes that all hold bindings
C10_Witness ==
  /\ last.op = "pop_scope"
  /\ Depth(prev) = 3
  /\ \A i \in 1..3 : DOMAIN Scopes(prev)[i] # {}
  /\ Depth(stack) = 2

C13_InsertExistingUndefined ==
  (last.op = "insert_existing" /\ Defining(prev, last.key) = {}) =>
    /\ Depth(stack) = Depth(prev)
    /\ Defining(stack, last.key) = {1}
    /\ Scopes(stack)[1][last.key] = last.value
    /\ Depth(stack) > 1 => last.key \notin DOMAIN TailScope(stack)

\* an insert_existing of an undefined key on a chain of three scopes
C13_Witness ==
  /\ last.op = "insert_existing"
  /\ Defining(prev, last.key) = {}
  /\ Depth(prev) = 3
  /\ Defining(stack, last.key) = {1}

\* the position the per-node rule of insert_existing ends at when started at
\* position i of a chain: go on to i+1 while there is a next node and has,
\* asked of that next node, is true (has answers for the last map)
RECURSIVE RuleTarget(_, _, _)
RuleTarget(scopes, i, key) ==
  IF i < Len(scopes) /\ key \in DOMAIN scopes[Len(scopes)]
    THEN RuleTarget(scopes, i + 1, key)
    ELSE i

Changed(a, b) == {i \in 1..Depth(a) : Scopes(a)[i] # Scopes(b)[i]}

\* C15: insert(K,_), insert_existing(K,_) and remove(K) change the bindings
\* of at most one scope and there only the entry for K; the chain length and
\* the bindings of every other key stay.  get and has change nothing.
C15_Frame ==
  /\ last.op \in {"insert", "insert_existing", "remove"} =>
       /\ Depth(stack) = Depth(prev)
       /\ Cardinality(Changed(prev, stack)) <= 1
       /\ \A i \in 1..Depth(prev) : \A x \in KEYS \ {last.key} :
            /\ (x \in DOMAIN Scopes(stack)[i]) <=> (x \in DOMAIN Scopes(prev)[i])
            /\ x \in DOMAIN Scopes(prev)[i] =>
                 Scopes(stack)[i][x] = Scopes(prev)[i][x]
  /\ last.op \in {"get", "has"} => stack = prev

\* a binding call that changed one scope of a chain of three whose every
\* scope also binds another key
C15_Witness ==
  /\ last.op \in {"insert", "insert_existing", "remove"}
  /\ Depth(prev) = 3
  /\ Cardinality(Changed(prev, stack)) = 1
  /\ \A i \in 1..3 : (DOMAIN Scopes(prev)[i]) \ {last.key} # {}

\* The sequence representation: a non-empty sequence of maps, root first.
SeqPush(q) == Append(q, EmptyMap)

SeqPop(q) == IF Len(q) > 1 THEN SubSeq(q, 1, Len(q) - 1) ELSE q

SeqInsert(q, key, value) ==
  [q EXCEPT ![Len(q)] =
     [x \in (DOMAIN @) \cup {key} |-> IF x = key THEN value ELSE @[x]]]

SeqHas(q, key) == key \in DOMAIN q[Len(q)]

SeqRemove(q, key) ==
  [q EXCEPT ![Len(q)] = [x \in (DOMAIN @) \ {key} |-> @[x]]]

SeqRemoved(q, key) ==
  IF key \in DOMAIN q[Len(q)] THEN <<q[Len(q)][key]>> ELSE <<>>

SeqGet(q, key) ==
  LET d == {i \in 1..Len(q) : key \in DOMAIN q[i]} IN
  IF d = {} THEN <<>> ELSE <<q[Max(d)][key]>>

C18_InsertExistingVisible ==
  last.op = "insert_existing" => get(stack, last.key) = <<last.value>>

C12_PushPopRoundTrip ==
  (block.phase = "closed" /\ ~block.calls) =>
    /\ stack = block.base
    /\ Scopes(stack) = Scopes(block.base)

\* the two calls were made on a chain of two scopes that both hold bindings
C12_Witness ==
  /\ block.phase = "closed"
  /\ ~block.calls
  /\ Depth(block.base) = 2
  /\ \A i \in 1..2 : DOMAIN Scopes(block.base)[i] # {}
  /\ Depth(stack) = 2

\* C17: the chain always holds at least one scope, and its length is 1 plus
\* the push_scope calls made minus the pop_scope calls made while the length
\* was greater than one.
C17_LengthBalance ==
  /\ Depth(stack) >= 1
  /\ Depth(stack) = 1 + balance

\* a pop_scope made on a single scope that holds bindings: it is not counted
\* and the length stays one
C17_Witness ==
  /\ last.op = "pop_scope"
  /\ Depth(prev) = 1
  /\ Depth(stack) = 1
  /\ balance = 0
  /\ DOMAIN stack.values # {}

C19_InsertExistingEscapes ==
  /\ block.phase = "closed"
  /\ block.ie
  /\ stack # block.base

====
